---- MODULE Spec2Model ----
(***************************************************************************)
(* The AuthSec SDK: the end-user facade AuthSecClient (authsec/minimal.py) *)
(* and the tenant-admin facade AdminHelper (authsec/admin_helper.py), with *)
(* the remote service as the environment.  One action is one call of a     *)
(* public method: the method is synchronous, so the request it sends and   *)
(* the answer the server gives (chosen with \E) belong to the same step.   *)
(*                                                                         *)
(* Representation.                                                         *)
(*  - A Python / JSON value is a record [t, s, l, o]: its type name, its   *)
(*    text (str, bool, int), its items (list) and its fields (dict).       *)
(*  - A URL or path is the sequence of its "/" separators and of the       *)
(*    maximal slash-free runs between them: "/auth/user/x" is              *)
(*    <<"/", "auth", "/", "user", "/", "x">>.  Every pattern the code      *)
(*    matches ("/uflow/", "/auth/user/", "http://") ends with "/", so      *)
(*    matching on these sequences is matching on the characters.           *)
(*  - An endpoint type is a sequence of characters, because the code       *)
(*    lower-cases it.                                                      *)
(***************************************************************************)
EXTENDS Integers, Sequences, FiniteSets, TLC

VARIABLES client, admin, http, response, result,
          backend,   \* the roles an echoing backend has stored
          created    \* the create_role calls that succeeded: name and permission strings

vars == <<client, admin, http, response, result, backend, created>>

(***************************************************************************)
(* Bounds of the model.                                                    *)
(***************************************************************************)
MaxTokens == 2
MaxListLen == 1

(***************************************************************************)
(* Python values.                                                          *)
(***************************************************************************)
NoFields == [k \in {} |-> [t |-> "NoneType", s |-> "", l |-> <<>>]]

PyVal(t, s, l, o) == [t |-> t, s |-> s, l |-> l, o |-> o]

PyNone == PyVal("NoneType", "", <<>>, NoFields)

PyTrue == PyVal("bool", "True", <<>>, NoFields)

PyFalse == PyVal("bool", "False", <<>>, NoFields)

PyStr(s) == PyVal("str", s, <<>>, NoFields)

PyList(l) == PyVal("list", "", l, NoFields)

PyDict(o) == PyVal("dict", "", <<>>, o)

\* bool(v): the truth value Python gives v in `if v`, `not v`, `v or d`.
Truthy(v) ==
    CASE v.t = "NoneType" -> FALSE
      [] v.t = "bool" -> v.s = "True"
      [] v.t = "str" -> v.s # ""
      [] v.t = "list" -> v.l # <<>>
      [] v.t = "dict" -> DOMAIN v.o # {}
      [] OTHER -> TRUE

\* str(v), as an f-string formats v.
Format(v) ==
    CASE v.t = "NoneType" -> "None"
      [] v.t = "str" -> v.s
      [] v.t = "bool" -> v.s
      [] OTHER -> "<" \o v.t \o ">"

(***************************************************************************)
(* The outcome of evaluating an expression: a value, or an exception.      *)
(***************************************************************************)
Ok(v) == [exc |-> "", val |-> v]

Err(e) == [exc |-> e, val |-> PyNone]

\* An exception raised with a message: the message is the sequence of the
\* pieces the f-string puts together.
ErrMsg(e, msg) == [exc |-> e, val |-> PyVal("message", "", msg, NoFields)]

(***************************************************************************)
(* String operations the code uses.                                        *)
(***************************************************************************)
\* str.lower() on a sequence of characters.
LowerChar(c) ==
    CASE c = "A" -> "a" [] c = "D" -> "d" [] c = "M" -> "m" [] c = "I" -> "i"
      [] c = "N" -> "n" [] c = "E" -> "e" [] c = "U" -> "u" [] c = "S" -> "s"
      [] c = "R" -> "r" [] c = "L" -> "l" [] c = "V" -> "v"
      [] OTHER -> c

lower(s) == [i \in 1..Len(s) |-> LowerChar(s[i])]

\* str.rstrip("/") on a path.
RECURSIVE rstrip(_)
rstrip(p) ==
    IF p # <<>> /\ p[Len(p)] = "/" THEN rstrip(SubSeq(p, 1, Len(p) - 1)) ELSE p

\* str.lstrip("/") on a path.
RECURSIVE lstrip(_)
lstrip(p) ==
    IF p # <<>> /\ p[1] = "/" THEN lstrip(Tail(p)) ELSE p

\* str.startswith(prefix).
startswith(p, prefix) ==
    Len(p) >= Len(prefix) /\ SubSeq(p, 1, Len(prefix)) = prefix

\* str.replace(old, new): every non-overlapping occurrence, left to right.
RECURSIVE replace(_, _, _)
replace(p, old, new) ==
    IF p = <<>> THEN <<>>
    ELSE IF startswith(p, old)
         THEN new \o replace(SubSeq(p, Len(old) + 1, Len(p)), old, new)
         ELSE <<Head(p)>> \o replace(Tail(p), old, new)

\* p + q for two strings: the runs that meet at the seam become one run.
cat(p, q) ==
    IF p # <<>> /\ q # <<>> /\ p[Len(p)] # "/" /\ q[1] # "/"
    THEN SubSeq(p, 1, Len(p) - 1) \o <<p[Len(p)] \o q[1]>> \o Tail(q)
    ELSE p \o q

\* "".join(chars): the string of a sequence of characters.
RECURSIVE join(_)
join(chars) == IF chars = <<>> THEN "" ELSE Head(chars) \o join(Tail(chars))

\* int(s) for a sequence of characters: ValueError unless all are digits.
Digit(c) ==
    CASE c = "0" -> 0 [] c = "1" -> 1 [] c = "2" -> 2 [] c = "3" -> 3 [] c = "4" -> 4
      [] c = "5" -> 5 [] c = "6" -> 6 [] c = "7" -> 7 [] c = "8" -> 8 [] c = "9" -> 9
      [] OTHER -> -1

RECURSIVE int(_)
int(s) ==
    IF s = <<>> \/ \E i \in 1..Len(s) : Digit(s[i]) < 0 THEN -1
    ELSE IF Len(s) = 1 THEN Digit(s[1])
    ELSE int(SubSeq(s, 1, Len(s) - 1)) * 10 + Digit(s[Len(s)])

admin_str == <<"a", "d", "m", "i", "n">>

enduser_str == <<"e", "n", "d", "u", "s", "e", "r">>

(***************************************************************************)
(* The remote service: what one HTTP exchange can come to.                 *)
(***************************************************************************)
\* The objects a list in an answer may hold: roles (permissions, bindings, ...)
\* known by their id.
Items == {PyDict([id |-> PyStr(i)]) : i \in {"r1", "r2"}}

Lists == UNION {[1..n -> Items] : n \in 0..MaxListLen}

Tokens == {"t" \o ToString(i) : i \in 1..MaxTokens}

\* JSON documents a server may answer with.
JsonBodies ==
    {PyDict(NoFields), PyNone}
    \cup {PyDict([k \in {"allowed"} |-> v]) : v \in {PyTrue, PyFalse, PyStr("no")}}
    \cup {PyDict([k \in {"permissions"} |-> PyList(l)]) : l \in Lists}
    \cup {PyDict([k \in {"access_token"} |-> PyStr(t)]) : t \in Tokens}
    \cup {PyDict([k \in {"roles"} |-> PyList(l)]) : l \in Lists}
    \cup {PyList(l) : l \in Lists}

StatusCodes == {200, 204, 304, 404, 500}

TransportErrors == {"ConnectionError", "Timeout"}

\* content is "json" (a body that parses to `json`), "text" (a body that is not
\* JSON) or "" (no body).
HttpResponse(status, content, json) ==
    [exc |-> "", status_code |-> status, content |-> content, json |-> json]

NoResponse == [exc |-> "none", status_code |-> 0, content |-> "", json |-> PyNone]

Responses ==
    {[exc |-> e, status_code |-> 0, content |-> "", json |-> PyNone] : e \in TransportErrors}
    \cup {HttpResponse(s, "json", j) : s \in StatusCodes, j \in JsonBodies}
    \cup {HttpResponse(s, c, PyNone) : s \in StatusCodes, c \in {"", "text"}}

\* The installed requests library: from 2.27 on Response.json() raises
\* requests.exceptions.JSONDecodeError, a RequestException; before, the json
\* module's JSONDecodeError, a ValueError only.
RequestsVersions == {"<2.27", ">=2.27"}

\* Response.raise_for_status(): HTTPError for a 4xx or 5xx status.
raise_for_status(r) ==
    IF 400 <= r.status_code /\ r.status_code < 600 THEN Err("HTTPError") ELSE Ok(PyNone)

\* Response.json().
json(r, ver) ==
    IF r.content = "json" THEN Ok(r.json)
    ELSE IF ver = ">=2.27" THEN Err("requests.JSONDecodeError")
    ELSE Err("json.JSONDecodeError")

IsRequestException(e) ==
    e \in TransportErrors \cup {"HTTPError", "requests.JSONDecodeError"}

\* v.get(key, default)
get(v, key, default) ==
    IF v.t # "dict" THEN Err("AttributeError")
    ELSE IF key \in DOMAIN v.o THEN Ok(v.o[key])
    ELSE Ok(default)

\* v[key]
getitem(v, key) ==
    IF v.t # "dict" THEN Err("TypeError")
    ELSE IF key \in DOMAIN v.o THEN Ok(v.o[key])
    ELSE Err("KeyError")

\* requests.<method>(url, ...); r.raise_for_status(): the response, or the
\* exception either of them raises.
Exchange(r) ==
    IF r.exc # "" THEN Err(r.exc) ELSE raise_for_status(r)

(***************************************************************************)
(* Requests on the wire and results of calls.                              *)
(***************************************************************************)
NoParams == [k \in {} |-> ""]

Request(method, url, headers, body, params) ==
    [method |-> method, url |-> url, headers |-> headers, json |-> body, params |-> params]

\* The Authorization header with the first token ever issued.
Bearer_first_token(token) ==
    [k \in {"Authorization"} |-> "Bearer " \o Format(PyStr("t1"))]

Bearer(token) == [k \in {"Authorization"} |-> "Bearer " \o Format(token)]

\* What one call of a method comes to: its outcome, the requests it sent, the
\* response it got (NoResponse when none) and the instance afterwards.
Done(outcome, sent, resp, c) == [out |-> outcome, sent |-> sent, resp |-> resp, self |-> c]

NoInstance == [cls |-> "none"]

(***************************************************************************)
(* AuthSecClient                                                           *)
(***************************************************************************)
BaseUrl == <<"http:", "/", "/", "api">>

UflowUrl == <<"http:", "/", "/", "uflow">>

BaseUrlArgs == {BaseUrl, BaseUrl \o <<"/">>}

UflowUrlArgs == {<<>>, UflowUrl, UflowUrl \o <<"/">>}

EndpointTypeArgs ==
    {admin_str, enduser_str, <<"A", "D", "M", "I", "N">>,
     <<"E", "n", "d", "U", "s", "e", "r">>, <<"u", "s", "e", "r">>, <<>>}

DefaultTimeout == 5

TokenArgs == {PyNone, PyStr("")} \cup {PyStr(t) : t \in Tokens}

\* AuthSecClient.__init__ without the validation of the endpoint type.
AuthSecClient_init_unvalidated(base_url, timeout, legacy_proxy_mode, uflow_base_url, token, endpoint_type) ==
    Ok([cls |-> "AuthSecClient",
        base_url |-> rstrip(base_url),
        uflow_base_url |-> IF uflow_base_url # <<>> THEN rstrip(uflow_base_url)
                           ELSE rstrip(base_url),
        timeout |-> timeout,
        legacy_proxy_mode |-> legacy_proxy_mode,
        endpoint_type |-> lower(endpoint_type),
        token |-> token,
        claims_cache |-> PyNone])

\* AuthSecClient.__init__
AuthSecClient_init(base_url, timeout, legacy_proxy_mode, uflow_base_url, token, endpoint_type) ==
    IF lower(endpoint_type) \notin {admin_str, enduser_str}
    THEN Err("ValueError")
    ELSE Ok([cls |-> "AuthSecClient",
             base_url |-> rstrip(base_url),
             uflow_base_url |-> IF uflow_base_url # <<>> THEN rstrip(uflow_base_url)
                                ELSE rstrip(base_url),
             timeout |-> timeout,
             legacy_proxy_mode |-> legacy_proxy_mode,
             endpoint_type |-> lower(endpoint_type),
             token |-> token,
             claims_cache |-> PyNone])

\* The caller is between two calls: the result of the last one is consumed.
NoCall == [op |-> "", args |-> <<>>, exc |-> "", val |-> PyNone]

Idle == result = NoCall

\* The two facades share no state (each owns its token and configuration), so a
\* behaviour follows one instance: a client or an admin helper.
NewClient ==
    /\ Idle
    /\ client = NoInstance
    /\ admin = NoInstance
    /\ \E b \in BaseUrlArgs, lp \in BOOLEAN, u \in UflowUrlArgs, t \in TokenArgs,
          e \in EndpointTypeArgs :
          LET made == AuthSecClient_init(b, DefaultTimeout, lp, u, t, e) IN
          /\ client' = IF made.exc = "" THEN made.val ELSE NoInstance
          /\ result' = [op |-> "AuthSecClient", args |-> [endpoint_type |-> e, token |-> t],
                        exc |-> made.exc, val |-> PyNone]
    /\ http' = <<>>
    /\ response' = NoResponse
    /\ UNCHANGED <<admin, backend, created>>

\* A call of a method of the client: the step it makes of the state.
ClientCall(op, args, d) ==
    /\ client' = d.self
    /\ http' = d.sent
    /\ response' = d.resp
    /\ result' = [op |-> op, args |-> args, exc |-> d.out.exc, val |-> d.out.val]
    /\ UNCHANGED <<admin, backend, created>>

\* set_token that resets the cache and forgets to store the token.
AuthSecClient_set_token_not_stored(c, token) ==
    Done(Ok(PyNone), <<>>, NoResponse, [c EXCEPT !.claims_cache = PyNone])

\* AuthSecClient.set_token
AuthSecClient_set_token(c, token) ==
    Done(Ok(PyNone), <<>>, NoResponse, [c EXCEPT !.token = token, !.claims_cache = PyNone])

set_token ==
    /\ Idle
    /\ client # NoInstance
    /\ \E t \in TokenArgs :
          ClientCall("set_token", [token |-> t], AuthSecClient_set_token(client, t))

\* AuthSecClient.exchange_oidc dropping the held token when the exchange fails.
AuthSecClient_exchange_oidc_dropped_on_failure(c, oidc_token, r, ver) ==
    LET sent == <<Request("POST", c.base_url \o <<"/", "authmgr", "/", "oidcToken">>,
                          NoParams, PyDict([oidc_token |-> PyStr(oidc_token)]), NoParams)>>
        x == Exchange(r)
        j == json(r, ver)
        tok == getitem(j.val, "access_token")
        dropped == AuthSecClient_set_token(c, PyNone).self
    IN  IF x.exc # "" THEN Done(x, sent, r, dropped)
        ELSE IF j.exc # "" THEN Done(j, sent, r, dropped)
        ELSE IF tok.exc # "" THEN Done(tok, sent, r, dropped)
        ELSE Done(tok, sent, r, AuthSecClient_set_token(c, tok.val).self)

\* exchange_oidc that returns the access token without storing it.
AuthSecClient_exchange_oidc_not_stored(c, oidc_token, r, ver) ==
    LET sent == <<Request("POST", c.base_url \o <<"/", "authmgr", "/", "oidcToken">>,
                          NoParams, PyDict([oidc_token |-> PyStr(oidc_token)]), NoParams)>>
        x == Exchange(r)
        j == json(r, ver)
        tok == getitem(j.val, "access_token")
    IN  IF x.exc # "" THEN Done(x, sent, r, c)
        ELSE IF j.exc # "" THEN Done(j, sent, r, c)
        ELSE Done(tok, sent, r, c)

\* AuthSecClient.exchange_oidc
AuthSecClient_exchange_oidc(c, oidc_token, r, ver) ==
    LET sent == <<Request("POST", c.base_url \o <<"/", "authmgr", "/", "oidcToken">>,
                          NoParams, PyDict([oidc_token |-> PyStr(oidc_token)]), NoParams)>>
        x == Exchange(r)
        j == json(r, ver)
        tok == getitem(j.val, "access_token")
    IN  IF x.exc # "" THEN Done(x, sent, r, c)
        ELSE IF j.exc # "" THEN Done(j, sent, r, c)
        ELSE IF tok.exc # "" THEN Done(tok, sent, r, c)
        ELSE Done(tok, sent, r, AuthSecClient_set_token(c, tok.val).self)

exchange_oidc ==
    /\ Idle
    /\ client # NoInstance
    /\ \E r \in Responses, ver \in RequestsVersions :
          ClientCall("exchange_oidc", [oidc_token |-> "oidc"],
                     AuthSecClient_exchange_oidc(client, "oidc", r, ver))

\* The tail of check_permission and check_permission_scoped: the GET, and the
\* except clause that turns a RequestException into False.
permission_check(c, params, r, ver) ==
    LET sent == <<Request("GET",
                          c.uflow_base_url \o <<"/", "uflow", "/", "user", "/", "permissions", "/", "check">>,
                          Bearer(c.token), PyNone, params)>>
        x == Exchange(r)
        j == json(r, ver)
        tried == IF x.exc # "" THEN x
                 ELSE IF j.exc # "" THEN j
                 ELSE get(j.val, "allowed", PyFalse)
    IN  IF IsRequestException(tried.exc) THEN Done(Ok(PyFalse), sent, r, c)
        ELSE Done(tried, sent, r, c)

\* AuthSecClient.check_permission
AuthSecClient_check_permission(c, resource, action, r, ver) ==
    IF ~Truthy(c.token) THEN Done(Ok(PyFalse), <<>>, NoResponse, c)
    ELSE permission_check(c, [resource |-> resource, action |-> action], r, ver)

\* AuthSecClient.check_permission_scoped with the scope written id first.
AuthSecClient_check_permission_scoped_id_first(c, resource, action, scope_type, scope_id, r, ver) ==
    IF ~Truthy(c.token) THEN Done(Ok(PyFalse), <<>>, NoResponse, c)
    ELSE permission_check(c, [resource |-> resource, action |-> action,
                              scope |-> scope_id \o ":" \o scope_type], r, ver)

\* AuthSecClient.check_permission_scoped
AuthSecClient_check_permission_scoped(c, resource, action, scope_type, scope_id, r, ver) ==
    IF ~Truthy(c.token) THEN Done(Ok(PyFalse), <<>>, NoResponse, c)
    ELSE permission_check(c, [resource |-> resource, action |-> action,
                              scope |-> scope_type \o ":" \o scope_id], r, ver)

Resources == {"document"}

Actions == {"read"}

ScopeTypes == {"project"}

ScopeIds == {"P1"}

check_permission ==
    /\ Idle
    /\ client # NoInstance
    /\ \E resource \in Resources, action \in Actions, r \in Responses, ver \in RequestsVersions :
          ClientCall("check_permission", [resource |-> resource, action |-> action],
                     AuthSecClient_check_permission(client, resource, action, r, ver))

check_permission_scoped ==
    /\ Idle
    /\ client # NoInstance
    /\ \E resource \in Resources, action \in Actions, st \in ScopeTypes, si \in ScopeIds,
          r \in Responses, ver \in RequestsVersions :
          ClientCall("check_permission_scoped",
                     [resource |-> resource, action |-> action, scope_type |-> st, scope_id |-> si],
                     AuthSecClient_check_permission_scoped(client, resource, action, st, si, r, ver))

\* AuthSecClient.list_permissions
AuthSecClient_list_permissions(c, r, ver) ==
    LET sent == <<Request("GET",
                          c.uflow_base_url \o <<"/", "uflow", "/", "user", "/", "permissions">>,
                          Bearer(c.token), PyNone, NoParams)>>
        x == Exchange(r)
        j == json(r, ver)
        tried == IF x.exc # "" THEN x
                 ELSE IF j.exc # "" THEN j
                 ELSE get(j.val, "permissions", PyList(<<>>))
    IN  IF ~Truthy(c.token) THEN Done(Ok(PyList(<<>>)), <<>>, NoResponse, c)
        ELSE IF IsRequestException(tried.exc) THEN Done(Ok(PyList(<<>>)), sent, r, c)
        ELSE Done(tried, sent, r, c)

list_permissions ==
    /\ Idle
    /\ client # NoInstance
    /\ \E r \in Responses, ver \in RequestsVersions :
          ClientCall("list_permissions", <<>>, AuthSecClient_list_permissions(client, r, ver))

\* AuthSecClient.request: the Response is returned as it is, whatever its status.
UrlArgs == {<<"/", "items">>, <<"http:", "/", "/", "app", "/", "items">>,
            <<"https:", "/", "/", "app", "/", "items">>}

HeaderArgs == {NoParams, [k \in {"Authorization"} |-> "Basic app"], [k \in {"X-Trace"} |-> "1"]}

\* dict.setdefault(key, value) on the headers.
setdefault(headers, key, value) ==
    [k \in DOMAIN headers \cup {key} |-> IF k \in DOMAIN headers THEN headers[k] ELSE value]

HasScheme(url) == url # <<>> /\ url[1] \in {"http:", "https:"}

AuthSecClient_request(c, method, url_or_path, headers, r) ==
    LET hdrs == setdefault(headers, "Authorization", "Bearer " \o Format(c.token))
        url == IF startswith(url_or_path, <<"http:", "/", "/">>)
                  \/ startswith(url_or_path, <<"https:", "/", "/">>)
               THEN rstrip(c.base_url) \o <<"/">> \o lstrip(url_or_path)
               ELSE url_or_path
        sent == <<Request(method, url, hdrs, PyNone, NoParams)>>
    IN  IF c.token = PyNone THEN Done(Err("RuntimeError"), <<>>, NoResponse, c)
        ELSE IF ~HasScheme(url) THEN Done(Err("MissingSchema"), <<>>, NoResponse, c)
        ELSE IF r.exc # "" THEN Done(Err(r.exc), sent, r, c)
        ELSE Done(Ok(PyVal("Response", ToString(r.status_code), <<>>, NoFields)), sent, r, c)

request ==
    /\ Idle
    /\ client # NoInstance
    /\ \E u \in UrlArgs, h \in HeaderArgs, r \in Responses :
          ClientCall("request", [url_or_path |-> u, headers |-> h],
                     AuthSecClient_request(client, "GET", u, h, r))

\* The bindings endpoint with the admin flag ignored.
bindings_endpoint_user_only(admin_flag) ==
    <<"/", "uflow", "/", "user", "/", "rbac", "/", "bindings">>

\* The binding endpoint of assign_role, remove_role_binding, list_role_bindings.
bindings_endpoint(admin_flag) ==
    IF admin_flag THEN <<"/", "uflow", "/", "admin", "/", "bindings">>
    ELSE <<"/", "uflow", "/", "user", "/", "rbac", "/", "bindings">>

\* v or d
or(v, d) == IF Truthy(v) THEN v ELSE d

\* The binding payload with a scope in every request.
binding_payload_always_scope(user_id, role_id, scope_type, scope_id, conditions) ==
    LET keys == {"user_id", "role_id", "scope"}
                \cup (IF Truthy(conditions) THEN {"conditions"} ELSE {})
    IN  PyDict([k \in keys |->
                  CASE k = "user_id" -> PyStr(user_id)
                    [] k = "role_id" -> PyStr(role_id)
                    [] k = "scope" -> PyDict([type |-> or(scope_type, PyStr("*")),
                                              id |-> or(scope_id, PyStr("*"))])
                    [] OTHER -> conditions])

\* The payload of a role binding (assign_role, create_role_binding).
binding_payload(user_id, role_id, scope_type, scope_id, conditions) ==
    LET keys == {"user_id", "role_id"}
                \cup (IF Truthy(scope_type) \/ Truthy(scope_id) THEN {"scope"} ELSE {})
                \cup (IF Truthy(conditions) THEN {"conditions"} ELSE {})
    IN  PyDict([k \in keys |->
                  CASE k = "user_id" -> PyStr(user_id)
                    [] k = "role_id" -> PyStr(role_id)
                    [] k = "scope" -> PyDict([type |-> or(scope_type, PyStr("*")),
                                              id |-> or(scope_id, PyStr("*"))])
                    [] OTHER -> conditions])

\* assign_role that tests the token only after the POST.
AuthSecClient_assign_role_late_guard(c, user_id, role_id, scope_type, scope_id, conditions, admin_flag, r, ver) ==
    LET sent == <<Request("POST", c.base_url \o bindings_endpoint(admin_flag), Bearer(c.token),
                          binding_payload(user_id, role_id, scope_type, scope_id, conditions),
                          NoParams)>>
        x == Exchange(r)
        tried == IF x.exc # "" THEN x ELSE json(r, ver)
    IN  IF ~Truthy(c.token) THEN Done(Err("RuntimeError"), sent, r, c)
        ELSE IF IsRequestException(tried.exc) THEN Done(Err("RuntimeError"), sent, r, c)
        ELSE Done(tried, sent, r, c)

\* AuthSecClient.assign_role
AuthSecClient_assign_role(c, user_id, role_id, scope_type, scope_id, conditions, admin_flag, r, ver) ==
    LET sent == <<Request("POST", c.base_url \o bindings_endpoint(admin_flag), Bearer(c.token),
                          binding_payload(user_id, role_id, scope_type, scope_id, conditions),
                          NoParams)>>
        x == Exchange(r)
        tried == IF x.exc # "" THEN x ELSE json(r, ver)
    IN  IF ~Truthy(c.token) THEN Done(Err("RuntimeError"), <<>>, NoResponse, c)
        ELSE IF IsRequestException(tried.exc) THEN Done(Err("RuntimeError"), sent, r, c)
        ELSE Done(tried, sent, r, c)

OptScopeTypes == {PyNone} \cup {PyStr(s) : s \in ScopeTypes}

OptScopeIds == {PyNone} \cup {PyStr(s) : s \in ScopeIds}

OptConditions == {PyNone, PyDict([mfa_required |-> PyTrue])}

assign_role ==
    /\ Idle
    /\ client # NoInstance
    /\ \E st \in OptScopeTypes, si \in OptScopeIds, cond \in OptConditions, a \in BOOLEAN,
          r \in Responses, ver \in RequestsVersions :
          ClientCall("assign_role", [scope_type |-> st, scope_id |-> si, conditions |-> cond, admin |-> a],
                     AuthSecClient_assign_role(client, "u1", "r1", st, si, cond, a, r, ver))

\* AuthSecClient.remove_role_binding
AuthSecClient_remove_role_binding(c, binding_id, admin_flag, r) ==
    LET sent == <<Request("DELETE", c.base_url \o bindings_endpoint(admin_flag) \o <<"/", binding_id>>,
                          Bearer(c.token), PyNone, NoParams)>>
        x == Exchange(r)
    IN  IF ~Truthy(c.token) THEN Done(Err("RuntimeError"), <<>>, NoResponse, c)
        ELSE IF IsRequestException(x.exc) THEN Done(Err("RuntimeError"), sent, r, c)
        ELSE Done(Ok(PyTrue), sent, r, c)

remove_role_binding ==
    /\ Idle
    /\ client # NoInstance
    /\ \E a \in BOOLEAN, r \in Responses :
          ClientCall("remove_role_binding", [binding_id |-> "b1", admin |-> a],
                     AuthSecClient_remove_role_binding(client, "b1", a, r))

\* The query of a list call: the filters that are given (truthy).
filters(given) ==
    [k \in {f \in DOMAIN given : Truthy(given[f])} |-> given[k].s]

\* AuthSecClient.list_role_bindings
AuthSecClient_list_role_bindings(c, user_id, role_id, scope_type, admin_flag, r, ver) ==
    LET sent == <<Request("GET", c.base_url \o bindings_endpoint(admin_flag), Bearer(c.token), PyNone,
                          filters([user_id |-> user_id, role_id |-> role_id,
                                   scope_type |-> scope_type]))>>
        x == Exchange(r)
        j == json(r, ver)
        tried == IF x.exc # "" THEN x
                 ELSE IF j.exc # "" THEN j
                 ELSE IF j.val.t = "list" THEN j ELSE Ok(PyList(<<>>))
    IN  IF ~Truthy(c.token) THEN Done(Err("RuntimeError"), <<>>, NoResponse, c)
        ELSE IF IsRequestException(tried.exc) THEN Done(Ok(PyList(<<>>)), sent, r, c)
        ELSE Done(tried, sent, r, c)

OptUserIds == {PyNone, PyStr("u1")}

OptRoleIds == {PyNone, PyStr("r1")}

list_role_bindings ==
    /\ Idle
    /\ client # NoInstance
    /\ \E u \in OptUserIds, ro \in OptRoleIds, st \in OptScopeTypes, a \in BOOLEAN,
          r \in Responses, ver \in RequestsVersions :
          ClientCall("list_role_bindings", [user_id |-> u, role_id |-> ro, scope_type |-> st, admin |-> a],
                     AuthSecClient_list_role_bindings(client, u, ro, st, a, r, ver))

\* The methods the class AuthSecClient defines.
AuthSecClient_methods ==
    {"__init__", "_get_path", "register", "verify_registration", "register_enduser",
     "verify_enduser_registration", "exchange_oidc", "set_token", "request",
     "check_permission", "check_permission_scoped", "list_permissions", "assign_role",
     "remove_role_binding", "list_role_bindings"}

\* client.<name>(...) for a name the class may not define: the attribute lookup
\* raises AttributeError before anything is called.
AuthSecClient_getattr(c, name) ==
    IF name \in AuthSecClient_methods THEN Done(Ok(PyStr(name)), <<>>, NoResponse, c)
    ELSE Done(Err("AttributeError"), <<>>, NoResponse, c)

\* client.login(email=..., password=..., client_id=...), as the tests and examples call it.
login ==
    /\ Idle
    /\ client # NoInstance
    /\ ClientCall("login", [email |-> "a@x", password |-> "pw", client_id |-> "c1"],
                  AuthSecClient_getattr(client, "login"))

\* client.verify_token(token), as the tests call it.
verify_token ==
    /\ Idle
    /\ client # NoInstance
    /\ \E t \in TokenArgs :
          ClientCall("verify_token", [token |-> t], AuthSecClient_getattr(client, "verify_token"))

\* AuthSecClient._get_path with the legacy rule after the endpoint-type rules.
AuthSecClient_get_path_legacy_last(c, endpoint, use_admin) ==
    LET current_endpoint_type == IF use_admin THEN admin_str ELSE c.endpoint_type
        prefix == IF current_endpoint_type = admin_str THEN <<"/", "auth", "/", "admin">>
                  ELSE <<"/", "auth", "/", "user">>
        routed == IF startswith(endpoint, <<"/", "auth", "/", "user", "/">>)
                  THEN replace(endpoint, <<"/", "auth", "/", "user", "/">>, prefix \o <<"/">>)
                  ELSE endpoint
    IN  IF c.legacy_proxy_mode THEN cat(<<"/", "authmgr">>, routed) ELSE routed

\* _get_path whose standard routing rewrites every /auth/user/ in the path,
\* user-flow paths included.
AuthSecClient_get_path_rewrite_all(c, endpoint, use_admin) ==
    LET current_endpoint_type == IF use_admin THEN admin_str ELSE c.endpoint_type
        prefix == IF current_endpoint_type = admin_str THEN <<"/", "auth", "/", "admin">>
                  ELSE <<"/", "auth", "/", "user">>
    IN  IF c.legacy_proxy_mode THEN cat(<<"/", "authmgr">>, endpoint)
        ELSE replace(endpoint, <<"/", "auth", "/", "user", "/">>, prefix \o <<"/">>)

\* AuthSecClient._get_path
AuthSecClient_get_path(c, endpoint, use_admin) ==
    LET current_endpoint_type == IF use_admin THEN admin_str ELSE c.endpoint_type
        prefix == IF current_endpoint_type = admin_str THEN <<"/", "auth", "/", "admin">>
                  ELSE <<"/", "auth", "/", "user">>
    IN  IF c.legacy_proxy_mode THEN cat(<<"/", "authmgr">>, endpoint)
        ELSE IF startswith(endpoint, <<"/", "uflow", "/">>) THEN endpoint
        ELSE IF endpoint = <<"/", "auth", "/", "user", "/", "verifyToken">>
             THEN prefix \o <<"/", "verifyToken">>
        ELSE IF endpoint = <<"/", "auth", "/", "user", "/", "generateToken">>
             THEN prefix \o <<"/", "generateToken">>
        ELSE IF endpoint = <<"/", "auth", "/", "user", "/", "permissions", "/", "check">>
             THEN prefix \o <<"/", "permissions", "/", "check">>
        ELSE IF startswith(endpoint, <<"/", "auth", "/", "user", "/">>)
             THEN replace(endpoint, <<"/", "auth", "/", "user", "/">>, prefix \o <<"/">>)
        ELSE IF startswith(endpoint, <<"/", "auth", "/", "admin", "/">>)
             THEN replace(endpoint, <<"/", "auth", "/", "admin", "/">>, prefix \o <<"/">>)
        ELSE endpoint

PyPath(p) == PyVal("path", "", p, NoFields)

Endpoints ==
    {<<"/", "uflow", "/", "user", "/", "permissions">>,
     <<"/", "uflow", "/">>,
     <<"/", "uflow">>,
     <<"/", "uflow", "/", "auth", "/", "user", "/", "me">>,
     <<"/", "auth", "/", "user", "/", "verifyToken">>,
     <<"/", "auth", "/", "user", "/", "generateToken">>,
     <<"/", "auth", "/", "user", "/", "permissions", "/", "check">>,
     <<"/", "auth", "/", "user", "/", "profile">>,
     <<"/", "auth", "/", "admin", "/", "users">>,
     <<"/", "auth", "/", "admin", "/", "verifyToken">>,
     <<"/", "auth", "/", "user", "/", "a", "/", "auth", "/", "user", "/", "b">>,
     <<"/", "auth", "/", "user">>,
     <<"/", "authmgr", "/", "oidcToken">>,
     <<"health">>}

get_path ==
    /\ Idle
    /\ client # NoInstance
    /\ \E e \in Endpoints, ua \in BOOLEAN :
          ClientCall("_get_path", [endpoint |-> e, use_admin |-> ua],
                     Done(Ok(PyPath(AuthSecClient_get_path(client, e, ua))), <<>>, NoResponse, client))

\* The four registration calls: a POST without Authorization header to the
\* user-flow service; raise_for_status and json() are not guarded.
registration(c, path, payload, empty_default, r, ver) ==
    LET sent == <<Request("POST", c.uflow_base_url \o path, NoParams, payload, NoParams)>>
        x == Exchange(r)
    IN  IF x.exc # "" THEN Done(x, sent, r, c)
        ELSE IF empty_default /\ r.content = "" THEN Done(Ok(PyDict([verified |-> PyTrue])), sent, r, c)
        ELSE Done(json(r, ver), sent, r, c)

\* AuthSecClient.register
AuthSecClient_register(c, email, name, password, tenant_domain, r, ver) ==
    registration(c, <<"/", "auth", "/", "admin", "/", "register">>,
                 PyDict([email |-> PyStr(email), name |-> PyStr(name),
                         password |-> PyStr(password), tenant_domain |-> PyStr(tenant_domain)]),
                 FALSE, r, ver)

\* AuthSecClient.verify_registration
AuthSecClient_verify_registration(c, email, otp, r, ver) ==
    registration(c, <<"/", "auth", "/", "admin", "/", "register", "/", "verify">>,
                 PyDict([email |-> PyStr(email), otp |-> PyStr(otp)]), TRUE, r, ver)

\* AuthSecClient.register_enduser
AuthSecClient_register_enduser(c, client_id, email, password, r, ver) ==
    registration(c, <<"/", "auth", "/", "enduser", "/", "initiate-registration">>,
                 PyDict([client_id |-> PyStr(client_id), email |-> PyStr(email),
                         password |-> PyStr(password)]),
                 FALSE, r, ver)

\* AuthSecClient.verify_enduser_registration
AuthSecClient_verify_enduser_registration(c, email, otp, r, ver) ==
    registration(c, <<"/", "auth", "/", "enduser", "/", "verify-otp">>,
                 PyDict([email |-> PyStr(email), otp |-> PyStr(otp)]), FALSE, r, ver)

register ==
    /\ Idle
    /\ client # NoInstance
    /\ \E r \in Responses, ver \in RequestsVersions :
          ClientCall("register", [email |-> "a@x"],
                     AuthSecClient_register(client, "a@x", "A", "pw", "tenant", r, ver))

verify_registration ==
    /\ Idle
    /\ client # NoInstance
    /\ \E r \in Responses, ver \in RequestsVersions :
          ClientCall("verify_registration", [email |-> "a@x", otp |-> "123456"],
                     AuthSecClient_verify_registration(client, "a@x", "123456", r, ver))

register_enduser ==
    /\ Idle
    /\ client # NoInstance
    /\ \E r \in Responses, ver \in RequestsVersions :
          ClientCall("register_enduser", [email |-> "u@x"],
                     AuthSecClient_register_enduser(client, "c1", "u@x", "pw", r, ver))

verify_enduser_registration ==
    /\ Idle
    /\ client # NoInstance
    /\ \E r \in Responses, ver \in RequestsVersions :
          ClientCall("verify_enduser_registration", [email |-> "u@x", otp |-> "123456"],
                     AuthSecClient_verify_enduser_registration(client, "u@x", "123456", r, ver))

(***************************************************************************)
(* AdminHelper                                                             *)
(***************************************************************************)
DefaultAdminTimeout == 10

DefaultAdminBaseUrl == <<"https:", "/", "/", "dev.api.authsec.dev">>

\* AdminHelper.__init__ with the prefix /uflow/<endpoint_type> for both types.
AdminHelper_init_uniform_prefix(token, base_url, timeout, debug, endpoint_type) ==
    IF endpoint_type \notin {admin_str, enduser_str}
    THEN Err("ValueError")
    ELSE Ok([cls |-> "AdminHelper",
             token |-> token,
             base_url |-> rstrip(base_url),
             timeout |-> timeout,
             debug |-> debug,
             endpoint_type |-> endpoint_type,
             endpoint_prefix |-> <<"/", "uflow", "/", join(endpoint_type)>>,
             headers |-> [k \in {"Authorization", "Content-Type"} |->
                            IF k = "Authorization" THEN "Bearer " \o Format(token)
                            ELSE "application/json"]])

\* AdminHelper.__init__
AdminHelper_init(token, base_url, timeout, debug, endpoint_type) ==
    IF endpoint_type \notin {admin_str, enduser_str}
    THEN Err("ValueError")
    ELSE Ok([cls |-> "AdminHelper",
             token |-> token,
             base_url |-> rstrip(base_url),
             timeout |-> timeout,
             debug |-> debug,
             endpoint_type |-> endpoint_type,
             endpoint_prefix |-> IF endpoint_type = enduser_str
                                 THEN <<"/", "uflow", "/", "user", "/", "rbac">>
                                 ELSE <<"/", "uflow", "/", join(endpoint_type)>>,
             headers |-> [k \in {"Authorization", "Content-Type"} |->
                            IF k = "Authorization" THEN "Bearer " \o Format(token)
                            ELSE "application/json"]])

NewAdmin ==
    /\ Idle
    /\ client = NoInstance
    /\ admin = NoInstance
    /\ \E t \in TokenArgs, b \in {DefaultAdminBaseUrl, BaseUrl \o <<"/">>}, d \in BOOLEAN,
          e \in EndpointTypeArgs :
          LET made == AdminHelper_init(t, b, DefaultAdminTimeout, d, e) IN
          /\ admin' = IF made.exc = "" THEN made.val ELSE NoInstance
          /\ result' = [op |-> "AdminHelper", args |-> [endpoint_type |-> e, token |-> t],
                        exc |-> made.exc, val |-> PyNone]
    /\ http' = <<>>
    /\ response' = NoResponse
    /\ UNCHANGED <<client, backend, created>>

\* os.getenv(name, default): a variable of the environment is a set, empty when
\* the variable is not set and holding its value otherwise.
getenv(environ, name, default) ==
    IF environ[name] = {} THEN default ELSE CHOOSE v \in environ[name] : TRUE

\* AdminHelper.from_env
AdminHelper_from_env(environ, debug) ==
    LET token == getenv(environ, "ADMIN_TOKEN", "")
        timeout == int(getenv(environ, "ADMIN_TIMEOUT", <<"1", "0">>))
    IN  IF token = "" THEN Err("ValueError")
        ELSE IF timeout < 0 THEN Err("ValueError")
        ELSE AdminHelper_init(PyStr(token),
                              getenv(environ, "ADMIN_BASE_URL", DefaultAdminBaseUrl),
                              timeout, debug,
                              getenv(environ, "ENDPOINT_TYPE", enduser_str))

Environments ==
    [ADMIN_TOKEN : {{}, {""}} \cup {{t} : t \in Tokens},
     ADMIN_BASE_URL : {{}, {BaseUrl \o <<"/">>}},
     ADMIN_TIMEOUT : {{}, {<<"3", "0">>}, {<<"3", "0", "s">>}},
     ENDPOINT_TYPE : {{}} \cup {{e} : e \in EndpointTypeArgs}]

from_env ==
    /\ Idle
    /\ client = NoInstance
    /\ admin = NoInstance
    /\ \E environ \in Environments, d \in BOOLEAN :
          LET made == AdminHelper_from_env(environ, d) IN
          /\ admin' = IF made.exc = "" THEN made.val ELSE NoInstance
          /\ result' = [op |-> "AdminHelper.from_env", args |-> environ,
                        exc |-> made.exc, val |-> PyNone]
    /\ http' = <<>>
    /\ response' = NoResponse
    /\ UNCHANGED <<client, backend, created>>

AdminCall(op, args, d) ==
    /\ admin' = d.self
    /\ http' = d.sent
    /\ response' = d.resp
    /\ result' = [op |-> op, args |-> args, exc |-> d.out.exc, val |-> d.out.val]
    /\ UNCHANGED <<client, backend, created>>

\* AdminSDKError and its subclasses: what `except AdminSDKError` catches.
AdminSDKErrors == {"AdminSDKError", "PermissionError", "RoleBindingError", "ScopeError", "SecretError"}

\* The text an HTTPError handler appends for the body of the error response.
error_detail(r) ==
    IF r.content = "" THEN <<>>
    ELSE IF r.content = "json" /\ r.json.t = "dict"
         THEN <<" - ", Format(get(r.json, "error", r.json).val)>>
    ELSE <<" - ", "response.text">>

\* AdminHelper._make_request with one retry after a failed exchange.
AdminHelper_make_request_retrying(a, method, endpoint, data, params, r, ver) ==
    LET rq == Request(method, a.base_url \o endpoint, a.headers, data, params)
        failed == <<method, " ">> \o endpoint \o <<" failed: ">>
        x == Exchange(r)
    IN  IF r.exc # ""
        THEN Done(ErrMsg("AdminSDKError", failed \o <<r.exc>>), <<rq, rq>>, r, a)
        ELSE IF x.exc = "HTTPError"
        THEN Done(ErrMsg("AdminSDKError", failed \o <<"HTTPError">> \o error_detail(r)), <<rq, rq>>, r, a)
        ELSE IF r.content = "" THEN Done(Ok(PyDict(NoFields)), <<rq>>, r, a)
        ELSE Done(json(r, ver), <<rq>>, r, a)

\* AdminHelper._make_request
AdminHelper_make_request(a, method, endpoint, data, params, r, ver) ==
    LET sent == <<Request(method, a.base_url \o endpoint, a.headers, data, params)>>
        failed == <<method, " ">> \o endpoint \o <<" failed: ">>
        x == Exchange(r)
        parsed == json(r, ver)
    IN  IF r.exc # ""
        THEN Done(ErrMsg("AdminSDKError", failed \o <<r.exc>>), sent, r, a)
        ELSE IF x.exc = "HTTPError"
        THEN Done(ErrMsg("AdminSDKError", failed \o <<"HTTPError">> \o error_detail(r)), sent, r, a)
        ELSE IF r.content = "" THEN Done(Ok(PyDict(NoFields)), sent, r, a)
        ELSE IF IsRequestException(parsed.exc)
        THEN Done(ErrMsg("AdminSDKError", failed \o <<parsed.exc>>), sent, r, a)
        ELSE Done(parsed, sent, r, a)

RequestMethods == {"GET", "DELETE"}

RequestEndpoints == {<<"/", "uflow", "/", "admin", "/", "roles">>, <<"/", "health">>}

\* A direct call of _make_request.
admin_make_request ==
    /\ Idle
    /\ admin # NoInstance
    /\ \E method \in RequestMethods, endpoint \in RequestEndpoints,
          r \in Responses, ver \in RequestsVersions :
          AdminCall("AdminHelper._make_request", [method |-> method, endpoint |-> endpoint],
                    AdminHelper_make_request(admin, method, endpoint, PyNone, NoParams, r, ver))

\* `except AdminSDKError as e: raise Family(f"{what}{e}")`
domain_error(out, family, what) ==
    IF out.exc \in AdminSDKErrors THEN ErrMsg(family, <<what>> \o out.val.l) ELSE out

\* `response if isinstance(response, list) else response.get(key, [])`
list_or_get(v, key) ==
    IF v.t = "list" THEN Ok(v) ELSE get(v, key, PyList(<<>>))

\* A request dictionary: the fields whose condition holds.
fields(all, present) == PyDict([k \in {f \in DOMAIN all : present[f]} |-> all[k]])

\* AdminHelper.create_permission with the description always in the body.
AdminHelper_create_permission_always_description(a, resource, action, description, r, ver) ==
    LET data == PyDict([resource |-> PyStr(resource), action |-> PyStr(action),
                        description |-> description])
        d == AdminHelper_make_request(a, "POST", a.endpoint_prefix \o <<"/", "permissions">>,
                                      data, NoParams, r, ver)
    IN  Done(domain_error(d.out, "PermissionError", "Failed to create permission: "),
             d.sent, d.resp, a)

\* AdminHelper.create_permission
AdminHelper_create_permission(a, resource, action, description, r, ver) ==
    LET data == fields([resource |-> PyStr(resource), action |-> PyStr(action),
                        description |-> description],
                       [resource |-> TRUE, action |-> TRUE,
                        description |-> Truthy(description)])
        d == AdminHelper_make_request(a, "POST", a.endpoint_prefix \o <<"/", "permissions">>,
                                      data, NoParams, r, ver)
    IN  Done(domain_error(d.out, "PermissionError", "Failed to create permission: "),
             d.sent, d.resp, a)

OptDescriptions == {PyNone, PyStr(""), PyStr("d")}

admin_create_permission ==
    /\ Idle
    /\ admin # NoInstance
    /\ \E res \in Resources, act \in Actions, desc \in OptDescriptions,
          r \in Responses, ver \in RequestsVersions :
          AdminCall("AdminHelper.create_permission",
                    [resource |-> res, action |-> act, description |-> desc],
                    AdminHelper_create_permission(admin, res, act, desc, r, ver))

\* AdminHelper.list_permissions
AdminHelper_list_permissions(a, resource, r, ver) ==
    LET d == AdminHelper_make_request(a, "GET", a.endpoint_prefix \o <<"/", "permissions">>,
                                      PyNone, filters([resource |-> resource]), r, ver)
        out == IF d.out.exc # "" THEN d.out ELSE list_or_get(d.out.val, "permissions")
    IN  Done(domain_error(out, "PermissionError", "Failed to list permissions: "),
             d.sent, d.resp, a)

OptResources == {PyNone} \cup {PyStr(x) : x \in Resources}

admin_list_permissions ==
    /\ Idle
    /\ admin # NoInstance
    /\ \E res \in OptResources, r \in Responses, ver \in RequestsVersions :
          AdminCall("AdminHelper.list_permissions", [resource |-> res],
                    AdminHelper_list_permissions(admin, res, r, ver))

\* AdminHelper.create_role
AdminHelper_create_role(a, name, description, permission_ids, permission_strings, r, ver) ==
    LET data == fields([name |-> PyStr(name), description |-> description,
                        permission_ids |-> permission_ids,
                        permission_strings |-> permission_strings],
                       [name |-> TRUE, description |-> Truthy(description),
                        permission_ids |-> Truthy(permission_ids),
                        permission_strings |-> Truthy(permission_strings)])
        d == AdminHelper_make_request(a, "POST", a.endpoint_prefix \o <<"/", "roles">>,
                                      data, NoParams, r, ver)
    IN  Done(domain_error(d.out, "RoleBindingError", "Failed to create role: "),
             d.sent, d.resp, a)

OptPermissionIds == {PyNone, PyList(<<>>), PyList(<<PyStr("perm1")>>)}

OptPermissionStrings == {PyNone, PyList(<<PyStr("document:read")>>)}

admin_create_role ==
    /\ Idle
    /\ admin # NoInstance
    /\ \E desc \in OptDescriptions, ids \in OptPermissionIds, strs \in OptPermissionStrings,
          r \in Responses, ver \in RequestsVersions :
          AdminCall("AdminHelper.create_role",
                    [name |-> "Editor", description |-> desc, permission_ids |-> ids,
                     permission_strings |-> strs],
                    AdminHelper_create_role(admin, "Editor", desc, ids, strs, r, ver))

\* AdminHelper.list_roles
AdminHelper_list_roles(a, resource, role_id, user_id, r, ver) ==
    LET d == AdminHelper_make_request(a, "GET", a.endpoint_prefix \o <<"/", "roles">>, PyNone,
                                      filters([resource |-> resource, role_id |-> role_id,
                                               user_id |-> user_id]), r, ver)
        out == IF d.out.exc # "" THEN d.out
               ELSE IF d.out.val.t = "list" THEN d.out
               ELSE Ok(PyList(<<>>))
    IN  Done(domain_error(out, "RoleBindingError", "Failed to list roles: "),
             d.sent, d.resp, a)

admin_list_roles ==
    /\ Idle
    /\ admin # NoInstance
    /\ \E res \in OptResources, rid \in OptRoleIds, uid \in OptUserIds,
          r \in Responses, ver \in RequestsVersions :
          AdminCall("AdminHelper.list_roles",
                    [resource |-> res, role_id |-> rid, user_id |-> uid],
                    AdminHelper_list_roles(admin, res, rid, uid, r, ver))

\* AdminHelper.get_role returning None for a role that is not there.
AdminHelper_get_role_or_none(a, role_id, r, ver) ==
    LET d == AdminHelper_make_request(a, "GET", a.endpoint_prefix \o <<"/", "roles">>, PyNone,
                                      [k \in {"role_id"} |-> role_id], r, ver)
        roles == list_or_get(d.out.val, "roles")
        out == IF d.out.exc # "" THEN d.out
               ELSE IF roles.exc # "" THEN roles
               ELSE IF Truthy(roles.val) /\ Len(roles.val.l) > 0 THEN Ok(roles.val.l[1])
               ELSE Ok(PyNone)
    IN  Done(domain_error(out, "RoleBindingError", "Failed to get role: "), d.sent, d.resp, a)

\* AdminHelper.get_role
AdminHelper_get_role(a, role_id, r, ver) ==
    LET d == AdminHelper_make_request(a, "GET", a.endpoint_prefix \o <<"/", "roles">>, PyNone,
                                      [k \in {"role_id"} |-> role_id], r, ver)
        roles == list_or_get(d.out.val, "roles")
        out == IF d.out.exc # "" THEN d.out
               ELSE IF roles.exc # "" THEN roles
               ELSE IF Truthy(roles.val) /\ Len(roles.val.l) > 0 THEN Ok(roles.val.l[1])
               ELSE ErrMsg("RoleBindingError", <<"Role not found: ", role_id>>)
    IN  Done(domain_error(out, "RoleBindingError", "Failed to get role: "), d.sent, d.resp, a)

RoleIds == {"r1"}

admin_get_role ==
    /\ Idle
    /\ admin # NoInstance
    /\ \E rid \in RoleIds, r \in Responses, ver \in RequestsVersions :
          AdminCall("AdminHelper.get_role", [role_id |-> rid],
                    AdminHelper_get_role(admin, rid, r, ver))

\* AdminHelper.update_role sending only the fields that are truthy.
AdminHelper_update_role_truthy(a, role_id, name, description, permission_ids, permission_strings, r, ver) ==
    LET data == fields([name |-> name, description |-> description,
                        permission_ids |-> permission_ids,
                        permission_strings |-> permission_strings],
                       [name |-> Truthy(name), description |-> Truthy(description),
                        permission_ids |-> Truthy(permission_ids),
                        permission_strings |-> Truthy(permission_strings)])
        d == AdminHelper_make_request(a, "PUT", a.endpoint_prefix \o <<"/", "roles", "/", role_id>>,
                                      data, NoParams, r, ver)
    IN  Done(domain_error(d.out, "RoleBindingError", "Failed to update role: "),
             d.sent, d.resp, a)

\* AdminHelper.update_role
AdminHelper_update_role(a, role_id, name, description, permission_ids, permission_strings, r, ver) ==
    LET data == fields([name |-> name, description |-> description,
                        permission_ids |-> permission_ids,
                        permission_strings |-> permission_strings],
                       [name |-> name # PyNone, description |-> description # PyNone,
                        permission_ids |-> permission_ids # PyNone,
                        permission_strings |-> permission_strings # PyNone])
        d == AdminHelper_make_request(a, "PUT", a.endpoint_prefix \o <<"/", "roles", "/", role_id>>,
                                      data, NoParams, r, ver)
    IN  Done(domain_error(d.out, "RoleBindingError", "Failed to update role: "),
             d.sent, d.resp, a)

OptNames == {PyNone, PyStr("Editor")}

admin_update_role ==
    /\ Idle
    /\ admin # NoInstance
    /\ \E rid \in RoleIds, name \in OptNames, desc \in OptDescriptions, ids \in OptPermissionIds,
          strs \in OptPermissionStrings, r \in Responses, ver \in RequestsVersions :
          AdminCall("AdminHelper.update_role",
                    [role_id |-> rid, name |-> name, description |-> desc,
                     permission_ids |-> ids, permission_strings |-> strs],
                    AdminHelper_update_role(admin, rid, name, desc, ids, strs, r, ver))

\* AdminHelper.delete_role
AdminHelper_delete_role(a, role_id, r, ver) ==
    LET d == AdminHelper_make_request(a, "DELETE", a.endpoint_prefix \o <<"/", "roles", "/", role_id>>,
                                      PyNone, NoParams, r, ver)
        out == IF d.out.exc # "" THEN d.out ELSE Ok(PyTrue)
    IN  Done(domain_error(out, "RoleBindingError", "Failed to delete role: "), d.sent, d.resp, a)

admin_delete_role ==
    /\ Idle
    /\ admin # NoInstance
    /\ \E rid \in RoleIds, r \in Responses, ver \in RequestsVersions :
          AdminCall("AdminHelper.delete_role", [role_id |-> rid],
                    AdminHelper_delete_role(admin, rid, r, ver))

\* AdminHelper.create_role_binding
AdminHelper_create_role_binding(a, user_id, role_id, scope_type, scope_id, conditions, r, ver) ==
    LET d == AdminHelper_make_request(a, "POST", a.endpoint_prefix \o <<"/", "bindings">>,
                                      binding_payload(user_id, role_id, scope_type, scope_id, conditions),
                                      NoParams, r, ver)
    IN  Done(domain_error(d.out, "RoleBindingError", "Failed to create role binding: "),
             d.sent, d.resp, a)

admin_create_role_binding ==
    /\ Idle
    /\ admin # NoInstance
    /\ \E st \in OptScopeTypes, si \in OptScopeIds, cond \in OptConditions,
          r \in Responses, ver \in RequestsVersions :
          AdminCall("AdminHelper.create_role_binding",
                    [scope_type |-> st, scope_id |-> si, conditions |-> cond],
                    AdminHelper_create_role_binding(admin, "u1", "r1", st, si, cond, r, ver))

\* AdminHelper.remove_role_binding
AdminHelper_remove_role_binding(a, binding_id, r, ver) ==
    LET d == AdminHelper_make_request(a, "DELETE",
                                      a.endpoint_prefix \o <<"/", "bindings", "/", binding_id>>,
                                      PyNone, NoParams, r, ver)
        out == IF d.out.exc # "" THEN d.out ELSE Ok(PyTrue)
    IN  Done(domain_error(out, "RoleBindingError", "Failed to remove role binding: "),
             d.sent, d.resp, a)

admin_remove_role_binding ==
    /\ Idle
    /\ admin # NoInstance
    /\ \E r \in Responses, ver \in RequestsVersions :
          AdminCall("AdminHelper.remove_role_binding", [binding_id |-> "b1"],
                    AdminHelper_remove_role_binding(admin, "b1", r, ver))

\* AdminHelper.list_role_bindings
AdminHelper_list_role_bindings(a, user_id, role_id, r, ver) ==
    LET d == AdminHelper_make_request(a, "GET", a.endpoint_prefix \o <<"/", "bindings">>, PyNone,
                                      filters([user_id |-> user_id, role_id |-> role_id]), r, ver)
        out == IF d.out.exc # "" THEN d.out ELSE list_or_get(d.out.val, "bindings")
    IN  Done(domain_error(out, "RoleBindingError", "Failed to list role bindings: "),
             d.sent, d.resp, a)

admin_list_role_bindings ==
    /\ Idle
    /\ admin # NoInstance
    /\ \E uid \in OptUserIds, rid \in OptRoleIds, r \in Responses, ver \in RequestsVersions :
          AdminCall("AdminHelper.list_role_bindings", [user_id |-> uid, role_id |-> rid],
                    AdminHelper_list_role_bindings(admin, uid, rid, r, ver))

\* AdminHelper.create_scope
AdminHelper_create_scope(a, name, description, resources, r, ver) ==
    LET data == fields([name |-> PyStr(name), description |-> description,
                        resources |-> resources],
                       [name |-> TRUE, description |-> Truthy(description),
                        resources |-> Truthy(resources)])
        d == AdminHelper_make_request(a, "POST", a.endpoint_prefix \o <<"/", "scopes">>,
                                      data, NoParams, r, ver)
    IN  Done(domain_error(d.out, "ScopeError", "Failed to create scope: "), d.sent, d.resp, a)

OptResourceLists == {PyNone, PyList(<<PyStr("document")>>)}

admin_create_scope ==
    /\ Idle
    /\ admin # NoInstance
    /\ \E desc \in OptDescriptions, rs \in OptResourceLists,
          r \in Responses, ver \in RequestsVersions :
          AdminCall("AdminHelper.create_scope", [description |-> desc, resources |-> rs],
                    AdminHelper_create_scope(admin, "project-scope", desc, rs, r, ver))

\* AdminHelper.list_scopes
AdminHelper_list_scopes(a, r, ver) ==
    LET d == AdminHelper_make_request(a, "GET", a.endpoint_prefix \o <<"/", "scopes">>,
                                      PyNone, NoParams, r, ver)
        out == IF d.out.exc # "" THEN d.out ELSE list_or_get(d.out.val, "scopes")
    IN  Done(domain_error(out, "ScopeError", "Failed to list scopes: "), d.sent, d.resp, a)

admin_list_scopes ==
    /\ Idle
    /\ admin # NoInstance
    /\ \E r \in Responses, ver \in RequestsVersions :
          AdminCall("AdminHelper.list_scopes", NoParams, AdminHelper_list_scopes(admin, r, ver))

SecretsEndpoint == <<"/", "external-service", "/", "secrets">>

\* AdminHelper.create_secret
AdminHelper_create_secret(a, name, value, metadata, r, ver) ==
    LET data == fields([name |-> PyStr(name), value |-> PyStr(value), metadata |-> metadata],
                       [name |-> TRUE, value |-> TRUE, metadata |-> Truthy(metadata)])
        d == AdminHelper_make_request(a, "POST", SecretsEndpoint, data, NoParams, r, ver)
    IN  Done(domain_error(d.out, "SecretError", "Failed to create secret: "), d.sent, d.resp, a)

OptMetadata == {PyNone, PyDict([env |-> PyStr("prod")])}

admin_create_secret ==
    /\ Idle
    /\ admin # NoInstance
    /\ \E md \in OptMetadata, r \in Responses, ver \in RequestsVersions :
          AdminCall("AdminHelper.create_secret", [metadata |-> md],
                    AdminHelper_create_secret(admin, "db", "s3cret", md, r, ver))

\* AdminHelper.list_secrets
AdminHelper_list_secrets(a, r, ver) ==
    LET d == AdminHelper_make_request(a, "GET", SecretsEndpoint, PyNone, NoParams, r, ver)
        out == IF d.out.exc # "" THEN d.out ELSE get(d.out.val, "secrets", PyList(<<>>))
    IN  Done(domain_error(out, "SecretError", "Failed to list secrets: "), d.sent, d.resp, a)

admin_list_secrets ==
    /\ Idle
    /\ admin # NoInstance
    /\ \E r \in Responses, ver \in RequestsVersions :
          AdminCall("AdminHelper.list_secrets", NoParams, AdminHelper_list_secrets(admin, r, ver))

\* The caller goes on to its next call.
NextCall ==
    /\ ~Idle
    /\ result' = NoCall
    /\ http' = <<>>
    /\ response' = NoResponse
    /\ UNCHANGED <<client, admin, backend, created>>

Init ==
    /\ client = NoInstance
    /\ admin = NoInstance
    /\ http = <<>>
    /\ response = NoResponse
    /\ result = NoCall
    /\ backend = <<>>
    /\ created = <<>>

Next ==
    \/ NewClient
    \/ set_token
    \/ exchange_oidc
    \/ request
    \/ check_permission
    \/ check_permission_scoped
    \/ list_permissions
    \/ assign_role
    \/ remove_role_binding
    \/ list_role_bindings
    \/ login
    \/ verify_token
    \/ get_path
    \/ register
    \/ verify_registration
    \/ register_enduser
    \/ verify_enduser_registration
    \/ NewAdmin
    \/ from_env
    \/ admin_make_request
    \/ admin_create_permission
    \/ admin_list_permissions
    \/ admin_create_role
    \/ admin_list_roles
    \/ admin_get_role
    \/ admin_update_role
    \/ admin_delete_role
    \/ admin_create_role_binding
    \/ admin_remove_role_binding
    \/ admin_list_role_bindings
    \/ admin_create_scope
    \/ admin_list_scopes
    \/ admin_create_secret
    \/ admin_list_secrets
    \/ NextCall

Spec == Init /\ [][Next]_vars

(***************************************************************************)
(* An AdminHelper in front of a backend that echoes: it stores the role a  *)
(* create_role request describes and lists the stored roles.               *)
(***************************************************************************)
MaxRoles == 2

RoleNames == {"Editor"}

PermissionStringLists ==
    {PyList(<<>>), PyList(<<PyStr("document:read")>>),
     PyList(<<PyStr("document:read"), PyStr("document:write")>>)}

\* The role the backend stores for the body of a POST <prefix>/roles.
EchoedRole(body, n) ==
    PyDict([id |-> PyStr("r" \o ToString(n)),
            name |-> body.o["name"],
            permission_strings |-> IF "permission_strings" \in DOMAIN body.o
                                   THEN body.o["permission_strings"]
                                   ELSE PyList(<<>>)])

\* The shapes in which the backend may answer GET <prefix>/roles.
EchoedLists == {PyList(backend), PyDict([k \in {"roles"} |-> PyList(backend)])}

\* create_role against the echoing backend, which stores the role and answers
\* with it, or fails and stores nothing.
echo_create_role ==
    /\ Idle
    /\ admin # NoInstance
    /\ Len(backend) < MaxRoles
    /\ \E name \in RoleNames, strs \in PermissionStringLists, up \in BOOLEAN,
          ver \in RequestsVersions :
          LET body == AdminHelper_create_role(admin, name, PyNone, PyNone, strs,
                                              NoResponse, ver).sent[1].json
              role == EchoedRole(body, Len(backend) + 1)
              r == IF up THEN HttpResponse(200, "json", role) ELSE HttpResponse(500, "", PyNone)
              d == AdminHelper_create_role(admin, name, PyNone, PyNone, strs, r, ver)
          IN  /\ admin' = d.self
              /\ http' = d.sent
              /\ response' = d.resp
              /\ result' = [op |-> "AdminHelper.create_role",
                            args |-> [name |-> name, description |-> PyNone,
                                      permission_ids |-> PyNone, permission_strings |-> strs],
                            exc |-> d.out.exc, val |-> d.out.val]
              /\ backend' = IF up THEN Append(backend, role) ELSE backend
              /\ created' = IF d.out.exc = ""
                            THEN Append(created, [name |-> name, permission_strings |-> strs])
                            ELSE created
    /\ UNCHANGED client

\* list_roles() without filter against the echoing backend.
echo_list_roles ==
    /\ Idle
    /\ admin # NoInstance
    /\ \E listed \in EchoedLists, ver \in RequestsVersions :
          AdminCall("AdminHelper.list_roles",
                    [resource |-> PyNone, role_id |-> PyNone, user_id |-> PyNone],
                    AdminHelper_list_roles(admin, PyNone, PyNone, PyNone,
                                           HttpResponse(200, "json", listed), ver))

EchoNext ==
    \/ NewAdmin
    \/ from_env
    \/ echo_create_role
    \/ echo_list_roles
    \/ NextCall

EchoSpec == Init /\ [][EchoNext]_vars

(***************************************************************************)
(* Properties                                                              *)
(***************************************************************************)
IsClient == client # NoInstance

IsAdmin == admin # NoInstance

ValidEndpointTypes == {admin_str, enduser_str}

\* The last call got an answer with a 2xx status.
Answered2xx == response.exc = "" /\ response.status_code >= 200 /\ response.status_code < 300

\* The answer is a JSON object with the field.
HasField(field) ==
    response.content = "json" /\ response.json.t = "dict" /\ field \in DOMAIN response.json.o

\* The last call sent exactly one request, a `method` carrying the held token.
SentWithToken(method) ==
    /\ Len(http) = 1
    /\ http[1].method = method
    /\ "Authorization" \in DOMAIN http[1].headers
    /\ http[1].headers["Authorization"] = "Bearer " \o Format(client.token)

\* C1: check_permission and check_permission_scoped return True only when a GET
\* carrying the held token was answered 2xx with allowed = true, and return
\* False (never anything else, never an exception) for every other outcome.
C1_DenyOnUncertainty ==
    result.op \in {"check_permission", "check_permission_scoped"} =>
        LET granted == /\ SentWithToken("GET")
                       /\ Answered2xx
                       /\ HasField("allowed")
                       /\ response.json.o["allowed"] = PyTrue
        IN  /\ result.exc = ""
            /\ result.val = IF granted THEN PyTrue ELSE PyFalse

\* C2: check_permission and list_permissions never raise; without a token and
\* on a failed HTTP call they return False / [].
C2_NeverRaise ==
    result.op \in {"check_permission", "list_permissions"} =>
        LET default == IF result.op = "check_permission" THEN PyFalse ELSE PyList(<<>>)
            failed == response.exc \in TransportErrors \/ (response.exc = "" /\ ~Answered2xx)
        IN  /\ result.exc = ""
            /\ ~Truthy(client.token) => result.val = default /\ http = <<>>
            /\ failed => result.val = default

\* C3: with no token set (the token is None), assign_role, remove_role_binding,
\* list_role_bindings and request raise RuntimeError, send nothing and leave
\* the client as it was.
C3_PreconditionBeforeNetwork ==
    [][(/\ IsClient
        /\ client.token = PyNone
        /\ result'.op \in {"assign_role", "remove_role_binding", "list_role_bindings", "request"})
       => (/\ result'.exc = "RuntimeError"
           /\ http' = <<>>
           /\ response' = NoResponse
           /\ client' = client)]_vars

C3_Witness ==
    /\ IsClient
    /\ client.token = PyNone
    /\ result.op = "assign_role"
    /\ result.exc = "RuntimeError"
    /\ http = <<>>

\* C4: an endpoint type that is neither admin nor enduser (whatever its letter
\* case) makes the construction of either facade fail with ValueError and
\* leaves no instance; the endpoint type of every instance is admin or enduser.
C4_EndpointTypeValid ==
    /\ IsClient => client.endpoint_type \in ValidEndpointTypes
    /\ IsAdmin => admin.endpoint_type \in ValidEndpointTypes
    /\ (/\ result.op \in {"AuthSecClient", "AdminHelper"}
        /\ lower(result.args.endpoint_type) \notin ValidEndpointTypes)
       => (result.exc = "ValueError" /\ ~IsClient /\ ~IsAdmin)
    /\ (/\ result.op = "AdminHelper.from_env"
        /\ lower(getenv(result.args, "ENDPOINT_TYPE", enduser_str)) \notin ValidEndpointTypes)
       => (result.exc = "ValueError" /\ ~IsAdmin)

C4_Witness ==
    /\ result.op = "AuthSecClient"
    /\ result.args.endpoint_type = <<"u", "s", "e", "r">>
    /\ result.exc = "ValueError"
    /\ ~IsClient

\* C5: an endpoint type equal to admin or enduser up to letter case is accepted
\* by AuthSecClient, AdminHelper and AdminHelper.from_env, and the instance
\* stores the lower-case type.
C5_CaseInsensitive ==
    /\ (/\ result.op = "AuthSecClient"
        /\ lower(result.args.endpoint_type) \in ValidEndpointTypes)
       => (result.exc = "" /\ IsClient /\ client.endpoint_type = lower(result.args.endpoint_type))
    /\ (/\ result.op = "AdminHelper"
        /\ lower(result.args.endpoint_type) \in ValidEndpointTypes)
       => (result.exc = "" /\ IsAdmin /\ admin.endpoint_type = lower(result.args.endpoint_type))
    /\ (/\ result.op = "AdminHelper.from_env"
        /\ getenv(result.args, "ADMIN_TOKEN", "") # ""
        /\ int(getenv(result.args, "ADMIN_TIMEOUT", <<"1", "0">>)) >= 0
        /\ lower(getenv(result.args, "ENDPOINT_TYPE", enduser_str)) \in ValidEndpointTypes)
       => (/\ result.exc = ""
           /\ IsAdmin
           /\ admin.endpoint_type = lower(getenv(result.args, "ENDPOINT_TYPE", enduser_str)))

\* C6: set_token(t) sends nothing and leaves the client holding t with an empty
\* claims cache; the claims cache is empty in every reachable state.
C6_SetTokenClearsClaims ==
    /\ IsClient => client.claims_cache = PyNone
    /\ result.op = "set_token" =>
          /\ result.exc = ""
          /\ client.token = result.args.token
          /\ http = <<>>
          /\ response = NoResponse

C6_Witness ==
    /\ result.op = "set_token"
    /\ result.args.token = PyStr("t1")
    /\ client.token = PyStr("t1")
    /\ client.claims_cache = PyNone

\* C7: when the server answers exchange_oidc 2xx with an access_token field,
\* the call returns that access token, the client holds it afterwards and the
\* claims cache is empty.
C7_ExchangeOidcStoresToken ==
    (result.op = "exchange_oidc" /\ Answered2xx /\ HasField("access_token")) =>
        /\ result.exc = ""
        /\ result.val = response.json.o["access_token"]
        /\ client.token = result.val
        /\ client.claims_cache = PyNone

C7_Witness ==
    /\ result.op = "exchange_oidc"
    /\ Answered2xx
    /\ HasField("access_token")
    /\ result.val = PyStr("t2")
    /\ client.token = PyStr("t2")

\* C8: AuthSecClient offers login: the call sends the login POST; answered 2xx
\* with a token field it stores the token, clears the claims cache and returns
\* the token; answered without a token field it fails and keeps the held token.
C8_LoginOffered ==
    result.op = "login" =>
        /\ Len(http) = 1
        /\ http[1].method = "POST"
        /\ (Answered2xx /\ HasField("token")) =>
              /\ result.exc = ""
              /\ result.val = response.json.o["token"]
              /\ client.token = result.val
              /\ client.claims_cache = PyNone
        /\ (Answered2xx /\ ~HasField("token")) => result.exc # ""

\* C9: AuthSecClient offers verify_token: with a token (the argument, or else
\* the held one) it POSTs the token to the verification endpoint and returns
\* the decoded claims; with neither it fails locally, sending nothing.
C9_VerifyTokenOffered ==
    result.op = "verify_token" =>
        LET available == Truthy(result.args.token) \/ Truthy(client.token) IN
        /\ available =>
              /\ Len(http) = 1
              /\ http[1].method = "POST"
              /\ (Answered2xx /\ response.content = "json") =>
                    (result.exc = "" /\ result.val = response.json)
        /\ ~available => (result.exc # "" /\ http = <<>>)

\* The last call resolved a path under the user-flow prefix /uflow/.
ResolvedUflowPath ==
    /\ result.op = "_get_path"
    /\ startswith(result.args.endpoint, <<"/", "uflow", "/">>)

ResolvedLegacyVerifyToken ==
    /\ result.op = "_get_path"
    /\ client.legacy_proxy_mode
    /\ result.args.endpoint = <<"/", "auth", "/", "user", "/", "verifyToken">>

\* C11: with legacy_proxy_mode on, _get_path("/auth/user/verifyToken") is the
\* one path /authmgr/auth/user/verifyToken, whether the client is configured
\* admin or enduser and whatever the per-call override.
C11_LegacyVerifyTokenFixed ==
    ResolvedLegacyVerifyToken =>
        result.val = PyPath(<<"/", "authmgr", "/", "auth", "/", "user", "/", "verifyToken">>)

C11_Witness ==
    /\ ResolvedLegacyVerifyToken
    /\ client.endpoint_type = admin_str
    /\ ~result.args.use_admin
    /\ result.val = PyPath(<<"/", "authmgr", "/", "auth", "/", "user", "/", "verifyToken">>)

\* The path the prefix rule names for an endpoint: the endpoint with its
\* leading /auth/user or /auth/admin segment replaced by the effective prefix,
\* any other endpoint as it is.
LeadingPrefixReplaced(endpoint, prefix) ==
    IF startswith(endpoint, <<"/", "auth", "/", "user", "/">>)
    THEN prefix \o SubSeq(endpoint, 5, Len(endpoint))
    ELSE IF startswith(endpoint, <<"/", "auth", "/", "admin", "/">>)
    THEN prefix \o SubSeq(endpoint, 5, Len(endpoint))
    ELSE endpoint

\* C12: with legacy_proxy_mode off and a path not under /uflow/, _get_path
\* takes the prefix of the effective endpoint type (the per-call override,
\* else the configured type: /auth/admin or /auth/user), and returns a path
\* that starts with /auth/user/ or /auth/admin/ with that leading segment
\* replaced by the prefix, and every other path unchanged.
C12_PrefixSelection ==
    (/\ result.op = "_get_path"
     /\ ~client.legacy_proxy_mode
     /\ ~startswith(result.args.endpoint, <<"/", "uflow", "/">>))
    => result.val =
          PyPath(LeadingPrefixReplaced(
                    result.args.endpoint,
                    IF result.args.use_admin \/ client.endpoint_type = admin_str
                    THEN <<"/", "auth", "/", "admin">>
                    ELSE <<"/", "auth", "/", "user">>))

\* The sequence holds the pieces of `sub` one after the other.
Contains(msg, sub) ==
    \E i \in 1..(Len(msg) - Len(sub) + 1) : SubSeq(msg, i, i + Len(sub) - 1) = sub

\* C13: _make_request succeeds exactly when the status is 2xx, returning the
\* parsed JSON body, or {} when the response has no content; every other
\* status and every transport failure raises AdminSDKError with a message that
\* holds the HTTP method and the path.
C13_TransportOutcome ==
    result.op = "AdminHelper._make_request" =>
        IF Answered2xx
        THEN /\ result.exc = ""
             /\ result.val = IF response.content = "" THEN PyDict(NoFields) ELSE response.json
        ELSE /\ result.exc = "AdminSDKError"
             /\ Contains(result.val.l, <<result.args.method>>)
             /\ Contains(result.val.l, result.args.endpoint)

\* C14: every call of a public operation of AuthSecClient or AdminHelper sends
\* at most one HTTP request, also when that request fails.
C14_NoRetries ==
    Len(http) <= 1

C14_Witness ==
    /\ result.op = "AdminHelper.get_role"
    /\ response.exc = "Timeout"
    /\ result.exc = "RoleBindingError"
    /\ Len(http) = 1

AdminOperations ==
    {"AdminHelper." \o n : n \in
        {"create_permission", "list_permissions", "create_role", "list_roles", "get_role",
         "update_role", "delete_role", "create_role_binding", "remove_role_binding",
         "list_role_bindings", "create_scope", "list_scopes", "create_secret", "list_secrets"}}

\* The domain error of an operation's family.
Family(op) ==
    CASE op \in {"AdminHelper.create_permission", "AdminHelper.list_permissions"} -> "PermissionError"
      [] op \in {"AdminHelper.create_scope", "AdminHelper.list_scopes"} -> "ScopeError"
      [] op \in {"AdminHelper.create_secret", "AdminHelper.list_secrets"} -> "SecretError"
      [] OTHER -> "RoleBindingError"

\* C15: an AdminHelper operation that raises, raises the domain error of its
\* family and nothing else; when its request failed (no answer, or a 4xx/5xx
\* answer) it raises that error with the transport error's message inside.
C15_DomainErrorWrapping ==
    result.op \in AdminOperations =>
        /\ result.exc \in {"", Family(result.op)}
        /\ response.exc \in TransportErrors =>
              result.exc = Family(result.op) /\ Contains(result.val.l, <<" failed: ", response.exc>>)
        /\ (response.exc = "" /\ raise_for_status(response).exc # "") =>
              result.exc = Family(result.op) /\ Contains(result.val.l, <<" failed: ", "HTTPError">>)

\* The roles of the answer get_role reads: the JSON list itself, the "roles"
\* field of a JSON object ([] without one), [] for an answer without content.
AnsweredRoles ==
    IF response.content = "" THEN PyList(<<>>)
    ELSE IF response.json.t = "list" THEN response.json
    ELSE get(response.json, "roles", PyList(<<>>)).val

\* get_role was answered, without error status, by a list of roles.
GotRoles ==
    /\ result.op = "AdminHelper.get_role"
    /\ response.exc = ""
    /\ raise_for_status(response).exc = ""
    /\ response.content = "" \/ (response.content = "json" /\ response.json.t \in {"list", "dict"})

\* One GET of <prefix>/roles filtered by role_id.
SentRoleFilter ==
    /\ Len(http) = 1
    /\ http[1].method = "GET"
    /\ http[1].url = admin.base_url \o admin.endpoint_prefix \o <<"/", "roles">>
    /\ http[1].params = [k \in {"role_id"} |-> result.args.role_id]

UpdateFields == {"name", "description", "permission_ids", "permission_strings"}

\* C17: update_role sends one PUT to <prefix>/roles/<role_id> whose body holds
\* exactly the fields among name, description, permission_ids and
\* permission_strings that were provided (not None), each with the value
\* given, an empty string or list included, and no field that was omitted.
C17_PartialUpdate ==
    result.op = "AdminHelper.update_role" =>
        /\ Len(http) = 1
        /\ http[1].method = "PUT"
        /\ http[1].url = admin.base_url \o admin.endpoint_prefix
                            \o <<"/", "roles", "/", result.args.role_id>>
        /\ http[1].json.t = "dict"
        /\ DOMAIN http[1].json.o = {f \in UpdateFields : result.args[f] # PyNone}
        /\ \A f \in DOMAIN http[1].json.o : http[1].json.o[f] = result.args[f]

C17_Witness ==
    /\ result.op = "AdminHelper.update_role"
    /\ result.args.name = PyNone
    /\ result.args.description = PyStr("")
    /\ result.args.permission_ids = PyList(<<>>)
    /\ result.args.permission_strings = PyNone
    /\ DOMAIN http[1].json.o = {"description", "permission_ids"}

\* The prefix of an endpoint type.
PrefixOf(endpoint_type) ==
    IF endpoint_type = admin_str THEN <<"/", "uflow", "/", "admin">>
    ELSE <<"/", "uflow", "/", "user", "/", "rbac">>

\* The resource path of a permission, role, binding or scope operation.
ResourcePath(res) ==
    CASE res.op \in {"AdminHelper.create_permission", "AdminHelper.list_permissions"}
            -> <<"/", "permissions">>
      [] res.op \in {"AdminHelper.create_role", "AdminHelper.list_roles", "AdminHelper.get_role"}
            -> <<"/", "roles">>
      [] res.op \in {"AdminHelper.update_role", "AdminHelper.delete_role"}
            -> <<"/", "roles", "/", res.args.role_id>>
      [] res.op \in {"AdminHelper.create_role_binding", "AdminHelper.list_role_bindings"}
            -> <<"/", "bindings">>
      [] res.op = "AdminHelper.remove_role_binding"
            -> <<"/", "bindings", "/", res.args.binding_id>>
      [] OTHER -> <<"/", "scopes">>

\* The operations on permissions, roles, bindings and scopes.
PrefixedOperations ==
    AdminOperations \ {"AdminHelper.create_secret", "AdminHelper.list_secrets"}

C19_CreatePermissionBody ==
    (result.op = "AdminHelper.create_permission" /\ admin.endpoint_type = admin_str) =>
        /\ Len(http) = 1
        /\ http[1].method = "POST"
        /\ http[1].url = admin.base_url \o <<"/", "uflow", "/", "admin", "/", "permissions">>
        /\ http[1].json.t = "dict"
        /\ {"resource", "action"} \subseteq DOMAIN http[1].json.o
        /\ DOMAIN http[1].json.o \subseteq {"resource", "action", "description"}
        /\ http[1].json.o["resource"] = PyStr(result.args.resource)
        /\ http[1].json.o["action"] = PyStr(result.args.action)
        /\ "description" \in DOMAIN http[1].json.o =>
              /\ result.args.description # PyNone
              /\ http[1].json.o["description"] = result.args.description

C19_Witness ==
    /\ result.op = "AdminHelper.create_permission"
    /\ admin.endpoint_type = admin_str
    /\ result.args.description = PyNone
    /\ http[1].json = PyDict([resource |-> PyStr("document"), action |-> PyStr("read")])

\* One GET of <uflow_base_url>/uflow/user/permissions/check with the query.
SentPermissionCheck(query) ==
    /\ Len(http) = 1
    /\ http[1].method = "GET"
    /\ http[1].url = client.uflow_base_url
                        \o <<"/", "uflow", "/", "user", "/", "permissions", "/", "check">>
    /\ http[1].params = query

\* C20: with a token, check_permission_scoped sends one GET to
\* <uflow_base_url>/uflow/user/permissions/check with the query resource,
\* action and scope = scope_type:scope_id; check_permission sends the same
\* GET without the scope.
C20_ScopedCheckQuery ==
    /\ (result.op = "check_permission_scoped" /\ Truthy(client.token)) =>
          SentPermissionCheck([resource |-> result.args.resource,
                               action |-> result.args.action,
                               scope |-> result.args.scope_type \o ":" \o result.args.scope_id])
    /\ (result.op = "check_permission" /\ Truthy(client.token)) =>
          SentPermissionCheck([resource |-> result.args.resource,
                               action |-> result.args.action])

C20_Witness ==
    /\ result.op = "check_permission_scoped"
    /\ Truthy(client.token)
    /\ client.uflow_base_url # client.base_url
    /\ http[1].params = [resource |-> "document", action |-> "read", scope |-> "project:P1"]

\* A role-binding request went out: assign_role or create_role_binding.
SentBinding ==
    /\ result.op \in {"assign_role", "AdminHelper.create_role_binding"}
    /\ Len(http) = 1

\* The scope with "*" for what was omitted.
WildcardScope(scope_type, scope_id) ==
    PyDict([type |-> IF scope_type = PyNone THEN PyStr("*") ELSE scope_type,
            id |-> IF scope_id = PyNone THEN PyStr("*") ELSE scope_id])

\* C21 (as claimed): the scope of a binding request of assign_role and
\* create_role_binding is ("*", "*") when scope type and id are omitted, and
\* has "*" for the omitted one when only one of the two is given.
C21_ScopeDefaultsToWildcard ==
    SentBinding =>
        /\ "scope" \in DOMAIN http[1].json.o
        /\ http[1].json.o["scope"] = WildcardScope(result.args.scope_type, result.args.scope_id)

\* C21 (amended): a binding request of assign_role and create_role_binding
\* has no scope at all when scope type and id are both omitted; when at least
\* one is given it has a scope with "*" for the omitted one.
C21_ScopeOmittedOrWildcard ==
    SentBinding =>
        IF result.args.scope_type = PyNone /\ result.args.scope_id = PyNone
        THEN "scope" \notin DOMAIN http[1].json.o
        ELSE /\ "scope" \in DOMAIN http[1].json.o
             /\ http[1].json.o["scope"] = WildcardScope(result.args.scope_type, result.args.scope_id)

C21_Witness ==
    /\ SentBinding
    /\ result.op = "assign_role"
    /\ result.args.scope_type = PyStr("project")
    /\ result.args.scope_id = PyNone
    /\ http[1].json.o["scope"] = PyDict([type |-> PyStr("project"), id |-> PyStr("*")])

\* The server failed the last call: no answer, or an answer that is not 2xx.
ServerFailure ==
    response.exc \in TransportErrors \/ (response.exc = "" /\ ~Answered2xx)

\* C22: with a token set and the same server failure (a status that is not
\* 2xx, or a transport failure), list_role_bindings returns [] and does not
\* raise while assign_role and remove_role_binding raise; list_role_bindings
\* also returns [] for a 2xx body that is not a JSON list.
C22_ErrorDefaultAsymmetry ==
    (IsClient /\ Truthy(client.token)) =>
        /\ (result.op = "list_role_bindings" /\ ServerFailure) =>
              result.exc = "" /\ result.val = PyList(<<>>)
        /\ (result.op \in {"assign_role", "remove_role_binding"} /\ ServerFailure) =>
              result.exc = "RuntimeError"
        /\ (/\ result.op = "list_role_bindings"
            /\ Answered2xx
            /\ ~(response.content = "json" /\ response.json.t = "list")) =>
              result.exc = "" /\ result.val = PyList(<<>>)

\* The URL request should call: an absolute http(s) URL as it is, a relative
\* path joined to base_url.
PassthroughUrl(c, url_or_path) ==
    IF HasScheme(url_or_path) THEN url_or_path
    ELSE rstrip(c.base_url) \o <<"/">> \o lstrip(url_or_path)

\* C24: request with a token sends one request to url_or_path itself when it
\* is an absolute http(s) URL and to base_url joined with it when it is a
\* relative path, with the caller's Authorization header if there is one and
\* Bearer <token> otherwise; without a token it fails and sends nothing.
C24_RequestPassthrough ==
    result.op = "request" =>
        IF client.token = PyNone
        THEN result.exc = "RuntimeError" /\ http = <<>>
        ELSE /\ Len(http) = 1
             /\ http[1].url = PassthroughUrl(client, result.args.url_or_path)
             /\ http[1].headers["Authorization"] =
                   IF "Authorization" \in DOMAIN result.args.headers
                   THEN result.args.headers["Authorization"]
                   ELSE "Bearer " \o Format(client.token)

\* C25: list_permissions with a token, answered 2xx, returns the list of the
\* permissions field of a JSON object and a raw JSON list as it is, and
\* raises for neither.
C25_ListPermissionsShapes ==
    (/\ result.op = "list_permissions"
     /\ Truthy(client.token)
     /\ Answered2xx
     /\ response.content = "json") =>
        /\ HasField("permissions") =>
              result.exc = "" /\ result.val = response.json.o["permissions"]
        /\ response.json.t = "list" =>
              result.exc = "" /\ result.val = response.json

\* The operations of AuthSecClient that choose the path they call.
PathChoosingOperations ==
    {"register", "verify_registration", "register_enduser", "verify_enduser_registration",
     "exchange_oidc", "check_permission", "check_permission_scoped", "list_permissions",
     "assign_role", "remove_role_binding", "list_role_bindings"}

\* The logical endpoint of an operation.
LogicalEndpoint(res) ==
    CASE res.op = "register" -> <<"/", "auth", "/", "admin", "/", "register">>
      [] res.op = "verify_registration" -> <<"/", "auth", "/", "admin", "/", "register", "/", "verify">>
      [] res.op = "register_enduser" -> <<"/", "auth", "/", "enduser", "/", "initiate-registration">>
      [] res.op = "verify_enduser_registration" -> <<"/", "auth", "/", "enduser", "/", "verify-otp">>
      [] res.op = "exchange_oidc" -> <<"/", "authmgr", "/", "oidcToken">>
      [] res.op \in {"check_permission", "check_permission_scoped"}
            -> <<"/", "uflow", "/", "user", "/", "permissions", "/", "check">>
      [] res.op = "list_permissions" -> <<"/", "uflow", "/", "user", "/", "permissions">>
      [] res.op = "remove_role_binding"
            -> bindings_endpoint(res.args.admin) \o <<"/", res.args.binding_id>>
      [] OTHER -> bindings_endpoint(res.args.admin)

\* The service an operation calls.
ServiceUrl(c, op) ==
    IF op \in {"exchange_oidc", "assign_role", "remove_role_binding", "list_role_bindings"}
    THEN c.base_url ELSE c.uflow_base_url

\* C26: the path an AuthSecClient operation requests is the resolver's output
\* for the operation's logical endpoint under the client's legacy_proxy_mode
\* and endpoint_type.
C26_CallsGoThroughResolver ==
    (result.op \in PathChoosingOperations /\ Len(http) = 1) =>
        http[1].url = ServiceUrl(client, result.op)
                         \o AuthSecClient_get_path(client, LogicalEndpoint(result), FALSE)

\* The operations of AuthSecClient that send the held token.
AuthenticatedOperations ==
    {"check_permission", "check_permission_scoped", "list_permissions", "assign_role",
     "remove_role_binding", "list_role_bindings", "request"}

\* C27: every request of an authenticated AuthSecClient operation (request
\* only when the caller gave no Authorization header) carries
\* Authorization: Bearer <t> with t the token the client held when the
\* operation was called, which is the one stored most recently.
C27_CurrentTokenOnWire ==
    [][(/\ IsClient
        /\ result'.op \in AuthenticatedOperations
        /\ result'.op = "request" => "Authorization" \notin DOMAIN result'.args.headers)
       => \A i \in DOMAIN http' :
             /\ "Authorization" \in DOMAIN http'[i].headers
             /\ http'[i].headers["Authorization"] = "Bearer " \o Format(client.token)
             /\ client'.token = client.token]_vars

C27_Witness ==
    /\ IsClient
    /\ result.op = "list_role_bindings"
    /\ client.token = PyStr("t2")
    /\ Len(http) = 1
    /\ http[1].headers["Authorization"] = "Bearer t2"

\* C28: only set_token and a successful exchange_oidc change the token (and
\* the claims cache) of a constructed AuthSecClient; every other operation
\* and every failing exchange_oidc leave the whole client as it was, and no
\* operation changes the base URLs, the timeout, the legacy-proxy flag or the
\* endpoint type.
C28_TokenFrame ==
    [][IsClient =>
         /\ [client' EXCEPT !.token = PyNone, !.claims_cache = PyNone]
               = [client EXCEPT !.token = PyNone, !.claims_cache = PyNone]
         /\ ~(result'.op = "set_token" \/ (result'.op = "exchange_oidc" /\ result'.exc = ""))
               => client' = client]_vars

C28_Witness ==
    /\ IsClient
    /\ result.op = "exchange_oidc"
    /\ result.exc = "KeyError"
    /\ client.token = PyStr("t1")

\* C29: the token-requiring operations agree on whether a token is set:
\* request refuses (RuntimeError, nothing sent) exactly when the held token is
\* absent or empty, as check_permission and assign_role do, and no request
\* carries an Authorization header with an empty bearer token.
C29_TokenSetConsistent ==
    IsClient =>
        /\ result.op = "request" =>
              ((result.exc = "RuntimeError" /\ http = <<>>) <=> ~Truthy(client.token))
        /\ result.op = "check_permission" =>
              ((result.val = PyFalse /\ http = <<>>) <=> ~Truthy(client.token))
        /\ result.op = "assign_role" =>
              ((result.exc = "RuntimeError" /\ http = <<>>) <=> ~Truthy(client.token))
        /\ \A i \in DOMAIN http :
              "Authorization" \in DOMAIN http[i].headers =>
                 http[i].headers["Authorization"] # "Bearer "

\* The AdminHelper with the client's base URL and token and the endpoint type
\* of the admin flag.
AdminHelperLike(c, admin_flag) ==
    AdminHelper_init(c.token, c.base_url, DefaultAdminTimeout, FALSE,
                     IF admin_flag THEN admin_str ELSE enduser_str).val

C23_RoundTrip ==
    (result.op = "AdminHelper.list_roles" /\ result.exc = "") =>
        \A i \in DOMAIN created :
           \E j \in DOMAIN result.val.l :
              /\ result.val.l[j].o["name"] = PyStr(created[i].name)
              /\ Len(result.val.l[j].o["permission_strings"].l)
                    = Len(created[i].permission_strings.l)

\* C23 for the answers that are a raw JSON list.
C23_RoundTripRawList ==
    (result.op = "AdminHelper.list_roles" /\ result.exc = "" /\ response.json.t = "list") =>
        \A i \in DOMAIN created :
           \E j \in DOMAIN result.val.l :
              /\ result.val.l[j].o["name"] = PyStr(created[i].name)
              /\ Len(result.val.l[j].o["permission_strings"].l)
                    = Len(created[i].permission_strings.l)
====
